---- MODULE Spec2Model ----
(***************************************************************************)
(* CycleGANModel (src/cycle_gan_model.py): the training step               *)
(* optimize_parameters, its gradient bookkeeping and its loss formulas.    *)
(*                                                                         *)
(* Two views of the same code are checked.                                 *)
(*  Spec      the step as a sequential program, one action per statement   *)
(*            of optimize_parameters, over an autograd abstraction: a      *)
(*            tensor is a handle (which statement of which call made it)   *)
(*            plus the set of networks whose parameters its graph reaches; *)
(*            a parameter gradient is the set of backward passes that      *)
(*            have accumulated into it since it was last zeroed.           *)
(*  SpecLoss  the arithmetic of backward_G and backward_D_basic on small   *)
(*            integer tensors, over repeated steps without errors, the     *)
(*            options and weights drawn in InitLoss, a batch per step.     *)
(***************************************************************************)
EXTENDS Integers, Sequences, FiniteSets

\* ------------------------------------------------------------- bounds
MaxCalls == 3
PoolSize == 1
BatchSize == 2
PixelLevels == 2

\* ------------------------------------------------------------ networks
G_Nets == {"G_A", "G_B"}
D_Nets == {"D_A", "D_B"}
Nets == G_Nets \cup D_Nets

\* The parameter set each Adam optimizer was built over.
OptimizerParams(o) == IF o = "G" THEN G_Nets ELSE D_Nets

VARIABLES
    pc,             \* position inside optimize_parameters, "idle" between calls
    call,           \* number of optimize_parameters calls begun
    outcome,        \* how the last finished call ended
    opt,            \* the options the model was initialized with
    real_A, real_B, fake_A, fake_B, rec_A, rec_B,
    fake_A_pool, fake_B_pool,
    requires_grad,  \* per network: requires_grad of its parameters
    grad,           \* per network: backward passes accumulated in .grad
    param,          \* per network: version of the parameter values
    opt_step,       \* per optimizer: number of step() calls (Adam state)
    pre,            \* param, opt_step, requires_grad when the call began
    trace,          \* statements of optimize_parameters run in this call
    dlog,           \* pool queries and backward_D_basic calls of this call
    lpc,            \* position of the evaluated step (value view)
    weights,        \* per network: its weights
    self,           \* values of the model's tensor and loss attributes
    has,            \* names of the attributes assigned so far
    visual_names,   \* self.visual_names
    last_D          \* locals of the latest backward_D_basic call

ovars == <<pc, call, outcome, opt, real_A, real_B, fake_A, fake_B, rec_A,
           rec_B, fake_A_pool, fake_B_pool, requires_grad, grad, param,
           opt_step, pre, trace, dlog>>

lvars == <<lpc, weights, self, has, visual_names, last_D>>

vars == <<ovars, lvars>>

\* ------------------------------------------------------------- autograd
NoTensor == [src |-> <<"none", 0>>, deps |-> {}]

\* A leaf tensor handed in by the data loader.
Leaf(name, k) == [src |-> <<name, k>>, deps |-> {}]

\* net(x): the result's graph reaches the parameters of net when they
\* require grad at the time of the call, and whatever x's graph reaches.
Apply(net, x, name, k, rg) ==
    [src |-> <<name, k>>,
     deps |-> x.deps \cup (IF rg[net] THEN {net} ELSE {})]

\* The detach left out: the tensor keeps its graph.
Detach_Missing(x) == x

\* x.detach(): same data, cut from the graph.
Detach(x) == [src |-> x.src, deps |-> {}]

\* loss.backward(): every parameter the graph reaches accumulates.
Backward(g, deps, tag) ==
    [n \in Nets |-> IF n \in deps THEN g[n] \cup {tag} ELSE g[n]]

\* optimizer.zero_grad()
ZeroGrad(g, o) ==
    [n \in Nets |-> IF n \in OptimizerParams(o) THEN {} ELSE g[n]]

\* optimizer.step(): Adam updates each of its parameters that holds a
\* gradient.
StepParams(p, g, o) ==
    [n \in Nets |-> IF n \in OptimizerParams(o) /\ g[n] # {}
                    THEN p[n] + 1 ELSE p[n]]

\* BaseModel.set_requires_grad(nets, flag)
SetRequiresGrad(rg, nets, flag) ==
    [n \in Nets |-> IF n \in nets THEN flag ELSE rg[n]]

\* ImagePool.query(image): the possible <<pool afterwards, image returned>>.
Query(pool, image) ==
    IF Len(pool) < PoolSize
    THEN {<<Append(pool, image), image>>}
    ELSE {<<pool, image>>} \cup
         {<<[pool EXCEPT ![i] = image], pool[i]>> : i \in 1..Len(pool)}

\* ------------------------------------------------------------- options
LambdaValues == {1, 2}
LambdaIdentityValues == {0, 2}
LambdaGpValues == {1, 10}

Options ==
    [isTrain : BOOLEAN, lambda_A : LambdaValues, lambda_B : LambdaValues,
     lambda_identity : LambdaIdentityValues, wgan : BOOLEAN,
     no_lsgan : BOOLEAN, with_gp : BOOLEAN, lambda_gp : LambdaGpValues]

\* Options of the runs whose step sequencing is explored: the loss weights
\* and the adversarial variant do not influence the sequencing.
StepOptions ==
    {o \in Options : /\ o.isTrain /\ o.lambda_A = 1 /\ o.lambda_B = 1
                     /\ ~o.wgan /\ ~o.no_lsgan /\ o.lambda_gp = 10}

\* ------------------------------------------------- graph of each loss
\* The networks reached by the graph of loss_D in backward_D_basic.
LossDDeps(netD, real, fake, rg) ==
    LET pred_real == Apply(netD, real, "pred_real", 0, rg)
        pred_fake == Apply(netD, Detach(fake), "pred_fake", 0, rg)
        x_tilde   == [src |-> <<"x_tilde", 0>>,
                      deps |-> real.deps \cup Detach(fake).deps]
        gradients == Apply(netD, x_tilde, "pred_tilde", 0, rg)
    IN  pred_real.deps \cup pred_fake.deps
            \cup (IF opt.with_gp THEN gradients.deps ELSE {})

\* The networks reached by the graph of loss_G in backward_G.
LossGDeps(rg) ==
    LET idt_A == Apply("G_A", real_B, "idt_A", call, rg)
        idt_B == Apply("G_B", real_A, "idt_B", call, rg)
        idt   == IF opt.lambda_identity > 0
                 THEN idt_A.deps \cup real_B.deps \cup idt_B.deps \cup real_A.deps
                 ELSE {}
        adv   == Apply("D_A", fake_B, "pred", call, rg).deps
                     \cup Apply("D_B", fake_A, "pred", call, rg).deps
        cycle == rec_A.deps \cup real_A.deps \cup rec_B.deps \cup real_B.deps
        mode_seeking == fake_B.deps \cup fake_A.deps
    IN  adv \cup cycle \cup idt \cup mode_seeking

\* ---------------------------------------------------------------- Init
InitStep ==
    /\ pc = "idle"
    /\ call = 0
    /\ outcome = "none"
    /\ real_A = NoTensor /\ real_B = NoTensor
    /\ fake_A = NoTensor /\ fake_B = NoTensor
    /\ rec_A = NoTensor /\ rec_B = NoTensor
    /\ fake_A_pool = <<>> /\ fake_B_pool = <<>>
    /\ requires_grad = [n \in Nets |-> TRUE]
    /\ grad = [n \in Nets |-> {}]
    /\ param = [n \in Nets |-> 0]
    /\ opt_step = [o \in {"G", "D"} |-> 0]
    /\ pre = [param |-> [n \in Nets |-> 0],
              opt_step |-> [o \in {"G", "D"} |-> 0],
              requires_grad |-> [n \in Nets |-> TRUE]]
    /\ trace = <<>>
    /\ dlog = <<>>

\* ------------------------------------------------------------- actions
\* The caller hands over a batch (set_input) and calls optimize_parameters.
SetInput ==
    /\ pc = "idle"
    /\ UNCHANGED lvars
    /\ call < MaxCalls
    /\ call' = call + 1
    /\ real_A' = Leaf("real_A", call + 1)
    /\ real_B' = Leaf("real_B", call + 1)
    /\ pre' = [param |-> param, opt_step |-> opt_step,
               requires_grad |-> requires_grad]
    /\ trace' = <<>>
    /\ dlog' = <<>>
    /\ pc' = "forward"
    /\ UNCHANGED <<outcome, opt, fake_A, fake_B, rec_A, rec_B, fake_A_pool,
                   fake_B_pool, requires_grad, grad, param, opt_step>>

\* The tensors self.fake_B, self.rec_A, self.fake_A, self.rec_B after the
\* first k assignments of forward().
ForwardPrefix(k) ==
    LET fB == Apply("G_A", real_A, "fake_B", call, requires_grad)
        rA == Apply("G_B", fB, "rec_A", call, requires_grad)
        fA == Apply("G_B", real_B, "fake_A", call, requires_grad)
        rB == Apply("G_A", fA, "rec_B", call, requires_grad)
    IN  [fake_B |-> IF k >= 1 THEN fB ELSE fake_B,
         rec_A  |-> IF k >= 2 THEN rA ELSE rec_A,
         fake_A |-> IF k >= 3 THEN fA ELSE fake_A,
         rec_B  |-> IF k >= 4 THEN rB ELSE rec_B]

SetForward(k) ==
    /\ fake_B' = ForwardPrefix(k).fake_B
    /\ rec_A' = ForwardPrefix(k).rec_A
    /\ fake_A' = ForwardPrefix(k).fake_A
    /\ rec_B' = ForwardPrefix(k).rec_B

\* An exception leaves optimize_parameters: nothing catches it.
Raise(where) ==
    /\ pc' = "idle"
    /\ outcome' = where

Forward ==
    /\ pc = "forward"
    /\ UNCHANGED lvars
    /\ SetForward(4)
    /\ trace' = Append(trace, "forward")
    /\ pc' = "freeze"
    /\ UNCHANGED <<call, outcome, opt, real_A, real_B, fake_A_pool,
                   fake_B_pool, requires_grad, grad, param, opt_step, pre, dlog>>

\* A generator call of forward() raises, after k of its assignments.
RaiseForward ==
    /\ pc = "forward"
    /\ UNCHANGED lvars
    /\ \E k \in 0..3 : SetForward(k)
    /\ Raise("raised_forward")
    /\ UNCHANGED <<call, opt, real_A, real_B, fake_A_pool, fake_B_pool,
                   requires_grad, grad, param, opt_step, pre, trace, dlog>>

\* The freeze passing the wrong flag.
Freeze_WrongFlag ==
    /\ pc = "freeze"
    /\ UNCHANGED lvars
    /\ requires_grad' = SetRequiresGrad(requires_grad, {"D_A", "D_B"}, TRUE)
    /\ trace' = Append(trace, "freeze_D")
    /\ pc' = "zero_grad_G"
    /\ UNCHANGED <<call, outcome, opt, real_A, real_B, fake_A, fake_B, rec_A,
                   rec_B, fake_A_pool, fake_B_pool, grad, param, opt_step,
                   pre, dlog>>

Freeze ==
    /\ pc = "freeze"
    /\ UNCHANGED lvars
    /\ requires_grad' = SetRequiresGrad(requires_grad, {"D_A", "D_B"}, FALSE)
    /\ trace' = Append(trace, "freeze_D")
    /\ pc' = "zero_grad_G"
    /\ UNCHANGED <<call, outcome, opt, real_A, real_B, fake_A, fake_B, rec_A,
                   rec_B, fake_A_pool, fake_B_pool, grad, param, opt_step,
                   pre, dlog>>

ZeroGradG ==
    /\ pc = "zero_grad_G"
    /\ UNCHANGED lvars
    /\ grad' = ZeroGrad(grad, "G")
    /\ trace' = Append(trace, "zero_grad_G")
    /\ pc' = "backward_G"
    /\ UNCHANGED <<call, outcome, opt, real_A, real_B, fake_A, fake_B, rec_A,
                   rec_B, fake_A_pool, fake_B_pool, requires_grad, param,
                   opt_step, pre, dlog>>

BackwardG ==
    /\ pc = "backward_G"
    /\ UNCHANGED lvars
    /\ grad' = Backward(grad, LossGDeps(requires_grad), <<call, "backward_G">>)
    /\ trace' = Append(trace, "backward_G")
    /\ pc' = "step_G"
    /\ UNCHANGED <<call, outcome, opt, real_A, real_B, fake_A, fake_B, rec_A,
                   rec_B, fake_A_pool, fake_B_pool, requires_grad, param,
                   opt_step, pre, dlog>>

\* backward_G raises: while the losses are computed (S empty) or inside
\* loss_G.backward(), when the parameters in S have already accumulated.
RaiseBackwardG ==
    /\ pc = "backward_G"
    /\ UNCHANGED lvars
    /\ \E S \in SUBSET LossGDeps(requires_grad) :
           grad' = Backward(grad, S, <<call, "backward_G">>)
    /\ Raise("raised_backward_G")
    /\ UNCHANGED <<call, opt, real_A, real_B, fake_A, fake_B, rec_A, rec_B,
                   fake_A_pool, fake_B_pool, requires_grad, param, opt_step,
                   pre, trace, dlog>>

\* The generator optimizer never stepped.
StepG_Missing ==
    /\ pc = "step_G"
    /\ UNCHANGED lvars
    /\ trace' = Append(trace, "step_G")
    /\ pc' = "unfreeze"
    /\ UNCHANGED <<call, outcome, opt, real_A, real_B, fake_A, fake_B, rec_A,
                   rec_B, fake_A_pool, fake_B_pool, requires_grad, grad, param,
                   opt_step, pre, dlog>>

StepG ==
    /\ pc = "step_G"
    /\ UNCHANGED lvars
    /\ param' = StepParams(param, grad, "G")
    /\ opt_step' = [opt_step EXCEPT !["G"] = @ + 1]
    /\ trace' = Append(trace, "step_G")
    /\ pc' = "unfreeze"
    /\ UNCHANGED <<call, outcome, opt, real_A, real_B, fake_A, fake_B, rec_A,
                   rec_B, fake_A_pool, fake_B_pool, requires_grad, grad, pre,
                   dlog>>

\* The unfreeze reaching only one of the two discriminators.
Unfreeze_OnlyD_A ==
    /\ pc = "unfreeze"
    /\ UNCHANGED lvars
    /\ requires_grad' = SetRequiresGrad(requires_grad, {"D_A"}, TRUE)
    /\ trace' = Append(trace, "unfreeze_D")
    /\ pc' = "zero_grad_D"
    /\ UNCHANGED <<call, outcome, opt, real_A, real_B, fake_A, fake_B, rec_A,
                   rec_B, fake_A_pool, fake_B_pool, grad, param, opt_step,
                   pre, dlog>>

Unfreeze ==
    /\ pc = "unfreeze"
    /\ UNCHANGED lvars
    /\ requires_grad' = SetRequiresGrad(requires_grad, {"D_A", "D_B"}, TRUE)
    /\ trace' = Append(trace, "unfreeze_D")
    /\ pc' = "zero_grad_D"
    /\ UNCHANGED <<call, outcome, opt, real_A, real_B, fake_A, fake_B, rec_A,
                   rec_B, fake_A_pool, fake_B_pool, grad, param, opt_step,
                   pre, dlog>>

\* The discriminator gradients not zeroed before the discriminator phase.
ZeroGradD_Missing ==
    /\ pc = "zero_grad_D"
    /\ UNCHANGED lvars
    /\ trace' = Append(trace, "zero_grad_D")
    /\ pc' = "backward_D_A"
    /\ UNCHANGED <<call, outcome, opt, real_A, real_B, fake_A, fake_B, rec_A,
                   rec_B, fake_A_pool, fake_B_pool, requires_grad, grad, param,
                   opt_step, pre, dlog>>

ZeroGradD ==
    /\ pc = "zero_grad_D"
    /\ UNCHANGED lvars
    /\ grad' = ZeroGrad(grad, "D")
    /\ trace' = Append(trace, "zero_grad_D")
    /\ pc' = "backward_D_A"
    /\ UNCHANGED <<call, outcome, opt, real_A, real_B, fake_A, fake_B, rec_A,
                   rec_B, fake_A_pool, fake_B_pool, requires_grad, param,
                   opt_step, pre, dlog>>

QueryEvent(pool, image, returned) ==
    [op |-> "query", pool |-> pool, image |-> image, returned |-> returned]

BasicEvent(netD, real, fake) ==
    [op |-> "backward_D_basic", netD |-> netD, real |-> real, fake |-> fake]

\* backward_D_basic(netD, real, fake), run to its end.
BackwardDBasic(netD, real, fake, tag) ==
    grad' = Backward(grad, LossDDeps(netD, real, fake, requires_grad), tag)

\* backward_D_basic(netD, real, fake) raising: before loss_D.backward()
\* (S empty) or inside it, when the parameters in S have accumulated.
BackwardDBasicRaising(netD, real, fake, tag) ==
    \E S \in SUBSET LossDDeps(netD, real, fake, requires_grad) :
        grad' = Backward(grad, S, tag)

\* Discriminator A scored on the raw current fake, the pool bypassed.
BackwardD_A_RawFake ==
    /\ pc = "backward_D_A"
    /\ UNCHANGED lvars
    /\ BackwardDBasic("D_A", real_B, fake_B, <<call, "backward_D_A">>)
    /\ dlog' = Append(dlog, BasicEvent("D_A", real_B, fake_B))
    /\ trace' = Append(trace, "backward_D_A")
    /\ pc' = "backward_D_B"
    /\ UNCHANGED <<call, outcome, opt, real_A, real_B, fake_A, fake_B, rec_A,
                   rec_B, fake_A_pool, fake_B_pool, requires_grad, param,
                   opt_step, pre>>

BackwardD_A ==
    /\ pc = "backward_D_A"
    /\ UNCHANGED lvars
    /\ \E r \in Query(fake_B_pool, fake_B) :
        /\ fake_B_pool' = r[1]
        /\ BackwardDBasic("D_A", real_B, r[2], <<call, "backward_D_A">>)
        /\ dlog' = dlog \o <<QueryEvent("fake_B_pool", fake_B, r[2]),
                             BasicEvent("D_A", real_B, r[2])>>
    /\ trace' = Append(trace, "backward_D_A")
    /\ pc' = "backward_D_B"
    /\ UNCHANGED <<call, outcome, opt, real_A, real_B, fake_A, fake_B, rec_A,
                   rec_B, fake_A_pool, requires_grad, param, opt_step, pre>>

\* backward_D_A raises: in the pool query, nothing changed yet, or in
\* backward_D_basic.
RaiseBackwardD_A ==
    /\ pc = "backward_D_A"
    /\ UNCHANGED lvars
    /\ \/ UNCHANGED <<fake_B_pool, grad, dlog>>
       \/ \E r \in Query(fake_B_pool, fake_B) :
            /\ fake_B_pool' = r[1]
            /\ BackwardDBasicRaising("D_A", real_B, r[2],
                                     <<call, "backward_D_A">>)
            /\ dlog' = dlog \o <<QueryEvent("fake_B_pool", fake_B, r[2]),
                                 BasicEvent("D_A", real_B, r[2])>>
    /\ Raise("raised_backward_D_A")
    /\ UNCHANGED <<call, opt, real_A, real_B, fake_A, fake_B, rec_A, rec_B,
                   fake_A_pool, requires_grad, param, opt_step, pre, trace>>

\* The call of backward_D_B left out of optimize_parameters.
BackwardD_B_Missing ==
    /\ pc = "backward_D_B"
    /\ UNCHANGED lvars
    /\ pc' = "step_D"
    /\ UNCHANGED <<call, outcome, opt, real_A, real_B, fake_A, fake_B, rec_A,
                   rec_B, fake_A_pool, fake_B_pool, requires_grad, grad, param,
                   opt_step, pre, trace, dlog>>

BackwardD_B ==
    /\ pc = "backward_D_B"
    /\ UNCHANGED lvars
    /\ \E r \in Query(fake_A_pool, fake_A) :
        /\ fake_A_pool' = r[1]
        /\ BackwardDBasic("D_B", real_A, r[2], <<call, "backward_D_B">>)
        /\ dlog' = dlog \o <<QueryEvent("fake_A_pool", fake_A, r[2]),
                             BasicEvent("D_B", real_A, r[2])>>
    /\ trace' = Append(trace, "backward_D_B")
    /\ pc' = "step_D"
    /\ UNCHANGED <<call, outcome, opt, real_A, real_B, fake_A, fake_B, rec_A,
                   rec_B, fake_B_pool, requires_grad, param, opt_step, pre>>

\* backward_D_B raises: in the pool query, nothing changed yet, or in
\* backward_D_basic.
RaiseBackwardD_B ==
    /\ pc = "backward_D_B"
    /\ UNCHANGED lvars
    /\ \/ UNCHANGED <<fake_A_pool, grad, dlog>>
       \/ \E r \in Query(fake_A_pool, fake_A) :
            /\ fake_A_pool' = r[1]
            /\ BackwardDBasicRaising("D_B", real_A, r[2],
                                     <<call, "backward_D_B">>)
            /\ dlog' = dlog \o <<QueryEvent("fake_A_pool", fake_A, r[2]),
                                 BasicEvent("D_B", real_A, r[2])>>
    /\ Raise("raised_backward_D_B")
    /\ UNCHANGED <<call, opt, real_A, real_B, fake_A, fake_B, rec_A, rec_B,
                   fake_B_pool, requires_grad, param, opt_step, pre, trace>>

\* The last statement: the call returns to its caller.
StepD ==
    /\ pc = "step_D"
    /\ UNCHANGED lvars
    /\ param' = StepParams(param, grad, "D")
    /\ opt_step' = [opt_step EXCEPT !["D"] = @ + 1]
    /\ trace' = Append(trace, "step_D")
    /\ pc' = "idle"
    /\ outcome' = "returned"
    /\ UNCHANGED <<call, opt, real_A, real_B, fake_A, fake_B, rec_A, rec_B,
                   fake_A_pool, fake_B_pool, requires_grad, grad, pre, dlog>>

StepNext ==
    \/ SetInput
    \/ Forward \/ RaiseForward
    \/ Freeze
    \/ ZeroGradG
    \/ BackwardG \/ RaiseBackwardG
    \/ StepG
    \/ Unfreeze
    \/ ZeroGradD
    \/ BackwardD_A \/ RaiseBackwardD_A
    \/ BackwardD_B \/ RaiseBackwardD_B
    \/ StepD


\* ------------------------------------------------------ tensor values
\* A tensor is a sequence of BatchSize integers, one per sample. A scalar
\* (a mean, a loss) is held exactly, as the numerator of a fraction over
\* Unit, so that the means over the batch and the 0.5 factors lose nothing.
Unit == 2 * BatchSize

Abs(x) == IF x < 0 THEN -x ELSE x

RECURSIVE Sum(_)
Sum(t) == IF t = <<>> THEN 0 ELSE Head(t) + Sum(Tail(t))

\* tensor.mean()
Mean(t) == (Unit * Sum(t)) \div Len(t)

\* 0.5 * scalar
Half(q) == q \div 2

\* torch.nn.L1Loss()(a, b)
L1Loss(a, b) == Mean([i \in 1..Len(a) |-> Abs(a[i] - b[i])])

\* GANLoss(use_lsgan)(pred, target_is_real): the mean squared error to the
\* target label 1 or 0 in least-squares mode; the classification loss of
\* the other mode is not integer valued and is stood for by the mean
\* absolute error to the label.
CriterionGAN(pred, target_is_real, use_lsgan) ==
    LET label == IF target_is_real THEN 1 ELSE 0
    IN  IF use_lsgan
        THEN Mean([i \in 1..Len(pred) |-> (pred[i] - label) * (pred[i] - label)])
        ELSE Mean([i \in 1..Len(pred) |-> Abs(pred[i] - label)])

\* A generator with weight w: the identity when w = 0.
NetG(w, x) == [i \in 1..Len(x) |-> (x[i] + w.w) % PixelLevels]

\* A discriminator with weights (w, b): one score per sample, the constant
\* b when w = 0.
NetD(w, x) == [i \in 1..Len(x) |-> w.w * x[i] + w.b]

\* d NetD(w, x)[i] / d x[i], what torch.autograd.grad returns for
\* grad_outputs of ones.
NetDInputGradient(w, x) == [i \in 1..Len(x) |-> w.w]

GWeights == {[w |-> 0, b |-> 0], [w |-> 1, b |-> 0]}
DWeights == {[w |-> 0, b |-> 1], [w |-> 1, b |-> 0]}
AllWeights ==
    {W \in [Nets -> GWeights \cup DWeights] :
        /\ \A n \in G_Nets : W[n] \in GWeights
        /\ \A n \in D_Nets : W[n] \in DWeights}
ZeroWeights == [n \in Nets |-> [w |-> 0, b |-> IF n \in D_Nets THEN 1 ELSE 0]]

\* The batches the data loader hands over: a uniform and a mixed one.
Batches ==
    {[i \in 1..BatchSize |-> 1],
     [i \in 1..BatchSize |-> IF i = 1 THEN 1 ELSE 0]}

\* optimizer.step() on the weights: Adam's arithmetic is not modelled; each
\* weight of the optimizer moves to another value, so that a later read of
\* a stepped weight differs from a read before the step.
StepWeights(W, o) ==
    [n \in Nets |-> IF n \in OptimizerParams(o)
                    THEN [W[n] EXCEPT !.w = (@ + 1) % 2]
                    ELSE W[n]]

\* ------------------------------------------------------- loss formulas
\* initialize(): self.visual_names
VisualNames(o) ==
    LET idt == o.isTrain /\ o.lambda_identity > 0
        visual_names_A == <<"real_A", "fake_B", "rec_A">>
                              \o (IF idt THEN <<"idt_A">> ELSE <<>>)
        visual_names_B == <<"real_B", "fake_A", "rec_B">>
                              \o (IF idt THEN <<"idt_B">> ELSE <<>>)
    IN  visual_names_A \o visual_names_B

\* The identity block entered for every lambda_identity >= 0.
IdentityLoss_GateIncludesZero(o, W, rA, rB) ==
    LET idt_A == NetG(W["G_A"], rB)
        idt_B == NetG(W["G_B"], rA)
    IN  IF o.lambda_identity >= 0
        THEN [computed |-> TRUE, idt_A |-> idt_A, idt_B |-> idt_B,
              loss_idt_A |-> L1Loss(idt_A, rB) * o.lambda_B * o.lambda_identity,
              loss_idt_B |-> L1Loss(idt_B, rA) * o.lambda_A * o.lambda_identity]
        ELSE [computed |-> FALSE, idt_A |-> <<>>, idt_B |-> <<>>,
              loss_idt_A |-> 0, loss_idt_B |-> 0]

\* backward_G, the identity block: whether the identity images are
\* computed, their values and the two identity losses.
IdentityLoss(o, W, rA, rB) ==
    LET idt_A == NetG(W["G_A"], rB)
        idt_B == NetG(W["G_B"], rA)
    IN  IF o.lambda_identity > 0
        THEN [computed |-> TRUE, idt_A |-> idt_A, idt_B |-> idt_B,
              loss_idt_A |-> L1Loss(idt_A, rB) * o.lambda_B * o.lambda_identity,
              loss_idt_B |-> L1Loss(idt_B, rA) * o.lambda_A * o.lambda_identity]
        ELSE [computed |-> FALSE, idt_A |-> <<>>, idt_B |-> <<>>,
              loss_idt_A |-> 0, loss_idt_B |-> 0]

\* backward_G, the adversarial terms loss_G_A and loss_G_B.
AdversarialLossG(o, W, fA, fB) ==
    IF o.wgan
    THEN [loss_G_A |-> -Mean(NetD(W["D_A"], fB)),
          loss_G_B |-> -Mean(NetD(W["D_B"], fA))]
    ELSE [loss_G_A |-> CriterionGAN(NetD(W["D_A"], fB), TRUE, ~o.no_lsgan),
          loss_G_B |-> CriterionGAN(NetD(W["D_B"], fA), TRUE, ~o.no_lsgan)]

\* The least-squares flag tested before the Wasserstein flag.
LossDBase_LsganFirst(o, pred_real, pred_fake) ==
    LET was == o.wgan /\ o.no_lsgan
        loss_D_real == IF was
                       THEN -Mean(pred_real)
                       ELSE Half(CriterionGAN(pred_real, TRUE, ~o.no_lsgan))
        loss_D_fake == IF was
                       THEN Mean(pred_fake)
                       ELSE Half(CriterionGAN(pred_fake, FALSE, ~o.no_lsgan))
    IN  loss_D_real + loss_D_fake

\* backward_D_basic, the loss before the gradient penalty.
LossDBase(o, pred_real, pred_fake) ==
    LET loss_D_real == IF o.wgan
                       THEN -Mean(pred_real)
                       ELSE Half(CriterionGAN(pred_real, TRUE, ~o.no_lsgan))
        loss_D_fake == IF o.wgan
                       THEN Mean(pred_fake)
                       ELSE Half(CriterionGAN(pred_fake, FALSE, ~o.no_lsgan))
    IN  loss_D_real + loss_D_fake

\* backward_D_basic, mean((gradients.norm(2, dim=1) - 1) ** 2): a sample has
\* one feature, so the norm over dim 1 is the absolute value.
PenaltyMean(gradients) ==
    Mean([i \in 1..Len(gradients) |->
              (Abs(gradients[i]) - 1) * (Abs(gradients[i]) - 1)])

\* backward_D_basic, the gradient penalty block: loss_D after it.
AddGradientPenalty(o, loss_D, gradients) ==
    IF o.with_gp THEN loss_D + 10 * PenaltyMean(gradients) ELSE loss_D

\* backward_D_basic(netD, real, fake): its locals and the loss returned.
\* eps is drawn in [0, 1); the interpolate is taken at eps = 0, the input
\* gradient of NetD being the same at every point.
BackwardDBasicValues(o, W, netD, real, fake) ==
    LET pred_real == NetD(W[netD], real)
        pred_fake == NetD(W[netD], fake)
        loss_base == LossDBase(o, pred_real, pred_fake)
        x_tilde   == [i \in 1..Len(real) |-> 0 * real[i] + (1 - 0) * fake[i]]
        gradients == NetDInputGradient(W[netD], x_tilde)
    IN  [netD |-> netD, real |-> real, fake |-> fake,
         pred_real |-> pred_real, pred_fake |-> pred_fake,
         loss_base |-> loss_base,
         penalty |-> PenaltyMean(gradients),
         loss_D |-> AddGradientPenalty(o, loss_base, gradients)]

\* ----------------------------------------- the step on tensor values
NoValues ==
    [real_A |-> <<>>, real_B |-> <<>>, fake_A |-> <<>>, fake_B |-> <<>>,
     rec_A |-> <<>>, rec_B |-> <<>>, idt_A |-> <<>>, idt_B |-> <<>>,
     loss_idt_A |-> 0, loss_idt_B |-> 0, loss_G_A |-> 0, loss_G_B |-> 0,
     loss_cycle_A |-> 0, loss_cycle_B |-> 0, loss_D_A |-> 0, loss_D_B |-> 0]

NoCall ==
    [netD |-> "none", real |-> <<>>, fake |-> <<>>, pred_real |-> <<>>,
     pred_fake |-> <<>>, loss_base |-> 0, penalty |-> 0, loss_D |-> 0]

InitValues(W) ==
    /\ lpc = "idle"
    /\ weights \in W
    /\ self = NoValues
    /\ has = {}
    /\ visual_names = VisualNames(opt)
    /\ last_D = NoCall

\* The images a pool may return for a query: the image handed in or one
\* stored by an earlier step.
QueryValues(image) == {image} \cup Batches

\* The caller hands over a batch for the first or for a further step.
ValueSetInput ==
    /\ lpc \in {"idle", "done"}
    /\ UNCHANGED ovars
    /\ opt.isTrain
    /\ \E a \in Batches, b \in Batches :
           self' = [self EXCEPT !.real_A = a, !.real_B = b]
    /\ has' = has \cup {"real_A", "real_B"}
    /\ lpc' = "forward"
    /\ UNCHANGED <<weights, visual_names, last_D>>

ValueForward ==
    /\ lpc = "forward"
    /\ UNCHANGED ovars
    /\ LET fB == NetG(weights["G_A"], self.real_A)
           rA == NetG(weights["G_B"], fB)
           fA == NetG(weights["G_B"], self.real_B)
           rB == NetG(weights["G_A"], fA)
       IN  self' = [self EXCEPT !.fake_B = fB, !.rec_A = rA,
                                !.fake_A = fA, !.rec_B = rB]
    /\ has' = has \cup {"fake_B", "rec_A", "fake_A", "rec_B"}
    /\ lpc' = "backward_G"
    /\ UNCHANGED <<weights, visual_names, last_D>>

\* backward_G: loss_mode_seeking and loss_G, ratios of random noise that no
\* claim reads, are left out.
ValueBackwardG ==
    /\ lpc = "backward_G"
    /\ UNCHANGED ovars
    /\ LET idt == IdentityLoss(opt, weights, self.real_A, self.real_B)
           adv == AdversarialLossG(opt, weights, self.fake_A, self.fake_B)
       IN  /\ self' = [self EXCEPT
                  !.idt_A = IF idt.computed THEN idt.idt_A ELSE @,
                  !.idt_B = IF idt.computed THEN idt.idt_B ELSE @,
                  !.loss_idt_A = idt.loss_idt_A,
                  !.loss_idt_B = idt.loss_idt_B,
                  !.loss_G_A = adv.loss_G_A,
                  !.loss_G_B = adv.loss_G_B,
                  !.loss_cycle_A = L1Loss(self.rec_A, self.real_A) * opt.lambda_A,
                  !.loss_cycle_B = L1Loss(self.rec_B, self.real_B) * opt.lambda_B]
           /\ has' = has \cup (IF idt.computed THEN {"idt_A", "idt_B"} ELSE {})
                         \cup {"loss_idt_A", "loss_idt_B", "loss_G_A",
                               "loss_G_B", "loss_cycle_A", "loss_cycle_B"}
    /\ lpc' = "step_G"
    /\ UNCHANGED <<weights, visual_names, last_D>>

ValueStepG ==
    /\ lpc = "step_G"
    /\ UNCHANGED ovars
    /\ weights' = StepWeights(weights, "G")
    /\ lpc' = "backward_D_A"
    /\ UNCHANGED <<self, has, visual_names, last_D>>

ValueBackwardD_A ==
    /\ lpc = "backward_D_A"
    /\ UNCHANGED ovars
    /\ \E fake \in QueryValues(self.fake_B) :
        /\ last_D' = BackwardDBasicValues(opt, weights, "D_A", self.real_B, fake)
        /\ self' = [self EXCEPT !.loss_D_A = last_D'.loss_D]
    /\ has' = has \cup {"loss_D_A"}
    /\ lpc' = "backward_D_B"
    /\ UNCHANGED <<weights, visual_names>>

ValueBackwardD_B ==
    /\ lpc = "backward_D_B"
    /\ UNCHANGED ovars
    /\ \E fake \in QueryValues(self.fake_A) :
        /\ last_D' = BackwardDBasicValues(opt, weights, "D_B", self.real_A, fake)
        /\ self' = [self EXCEPT !.loss_D_B = last_D'.loss_D]
    /\ has' = has \cup {"loss_D_B"}
    /\ lpc' = "step_D"
    /\ UNCHANGED <<weights, visual_names>>

ValueStepD ==
    /\ lpc = "step_D"
    /\ UNCHANGED ovars
    /\ weights' = StepWeights(weights, "D")
    /\ lpc' = "done"
    /\ UNCHANGED <<self, has, visual_names, last_D>>

ValueNext ==
    \/ ValueSetInput
    \/ ValueForward
    \/ ValueBackwardG
    \/ ValueStepG
    \/ ValueBackwardD_A
    \/ ValueBackwardD_B
    \/ ValueStepD

\* ------------------------------------------------------ specifications
\* Options of the runs whose loss arithmetic is explored.
LossOptions == {o \in Options : o.with_gp \/ o.lambda_gp = 10}

Init == opt \in StepOptions /\ InitStep /\ InitValues({ZeroWeights})

Next == StepNext

Spec == Init /\ [][Next]_vars

InitLoss == opt \in LossOptions /\ InitStep /\ InitValues(AllWeights)

NextLoss == ValueNext

SpecLoss == InitLoss /\ [][NextLoss]_vars

\* ==================================================== claims under Spec
AllD(flag) == \A n \in D_Nets : requires_grad[n] = flag

Raised ==
    {"raised_forward", "raised_backward_G", "raised_backward_D_A",
     "raised_backward_D_B"}

IsPrefix(s, t) == Len(s) <= Len(t) /\ s = SubSeq(t, 1, Len(s))

\* The statements of optimize_parameters, in the order the claim gives.
OptimizeParametersOrder ==
    <<"forward", "freeze_D", "zero_grad_G", "backward_G", "step_G",
      "unfreeze_D", "zero_grad_D", "backward_D_A", "backward_D_B", "step_D">>

\* C1: a call that returns normally has run forward, freeze, generator
\* zero_grad, backward_G, generator step, unfreeze, discriminator zero_grad,
\* backward_D_A, backward_D_B, discriminator step, each once and in this
\* order; at every moment of a call what has run is a prefix of that order.
C1_StepOrder ==
    /\ IsPrefix(trace, OptimizeParametersOrder)
    /\ (pc = "idle" /\ outcome = "returned") => trace = OptimizeParametersOrder

C1_Witness == pc = "idle" /\ outcome = "returned" /\ call = 2

\* C2 as stated: a call that raised has stepped neither optimizer, and the
\* parameters and optimizer states are those the call began with.
C2_NothingSteppedOnError ==
    (pc = "idle" /\ outcome \in Raised) =>
        (param = pre.param /\ opt_step = pre.opt_step)

\* C2 amended: an error leaves the call at the raising statement (nothing
\* after it runs); raised in forward or backward_G, neither optimizer has
\* been stepped and parameters and optimizer states are those the call
\* began with; raised in backward_D_A or backward_D_B, the generator
\* optimizer has been stepped once and the generator parameters updated,
\* while the discriminator optimizer and parameters are untouched. The
\* discriminator optimizer is never stepped in a call that did not step
\* the generator optimizer.
C2_StepOnlyAfterOwnBackward ==
    /\ opt_step["D"] - pre.opt_step["D"] <= opt_step["G"] - pre.opt_step["G"]
    /\ (pc = "idle" /\ outcome = "raised_forward") =>
           (trace = <<>> /\ param = pre.param /\ opt_step = pre.opt_step)
    /\ (pc = "idle" /\ outcome = "raised_backward_G") =>
           /\ trace = SubSeq(OptimizeParametersOrder, 1, 3)
           /\ param = pre.param /\ opt_step = pre.opt_step
    /\ (pc = "idle" /\ outcome \in {"raised_backward_D_A", "raised_backward_D_B"}) =>
           /\ trace = SubSeq(OptimizeParametersOrder, 1,
                             IF outcome = "raised_backward_D_A" THEN 7 ELSE 8)
           /\ opt_step["G"] = pre.opt_step["G"] + 1
           /\ opt_step["D"] = pre.opt_step["D"]
           /\ \A n \in G_Nets : param[n] = pre.param[n] + 1
           /\ \A n \in D_Nets : param[n] = pre.param[n]

C2_Witness ==
    /\ pc = "idle" /\ outcome = "raised_backward_D_B"
    /\ opt_step["G"] = pre.opt_step["G"] + 1

GeneratorPhaseKeepsDGrad ==
    pc \in {"backward_G", "step_G"} => \A n \in D_Nets : grad'[n] = grad[n]

\* C3: while backward_G runs every parameter of netD_A and netD_B has
\* requires_grad = false, and neither backward_G nor the generator
\* optimizer step changes the accumulated gradient of a discriminator
\* parameter.
C3_GradientIsolation ==
    /\ [](pc = "backward_G" => AllD(FALSE))
    /\ [][GeneratorPhaseKeepsDGrad]_vars

C3_Witness ==
    /\ pc = "unfreeze" /\ call = 2
    /\ \A n \in D_Nets : grad[n] # {}

\* C4 as stated: whenever a call begins and after every call, raised or
\* not, every discriminator parameter has requires_grad = true.
C4_NeverFrozenAcrossSteps == pc \in {"idle", "forward"} => AllD(TRUE)

\* C4 amended: the discriminators are unfrozen after every call that
\* returns normally or raises in backward_D_A or backward_D_B, and
\* throughout the discriminator phase; a call that raises in backward_G
\* leaves both frozen, a call that raises in forward leaves the flags as
\* it found them, and a call begins unfrozen unless the call before it
\* raised in backward_G or forward.
C4_UnfrozenAfterCompletedStep ==
    /\ (pc = "idle" /\ outcome \in {"returned", "raised_backward_D_A",
                                    "raised_backward_D_B"}) => AllD(TRUE)
    /\ pc \in {"zero_grad_D", "backward_D_A", "backward_D_B", "step_D"}
           => AllD(TRUE)
    /\ (pc = "idle" /\ outcome = "raised_backward_G") => AllD(FALSE)
    /\ (pc = "idle" /\ outcome = "raised_forward")
           => requires_grad = pre.requires_grad
    /\ (pc = "forward" /\ outcome \in {"none", "returned", "raised_backward_D_A",
                                       "raised_backward_D_B"}) => AllD(TRUE)

C4_Witness ==
    /\ pc = "idle" /\ outcome = "returned"
    /\ \A n \in D_Nets : ~pre.requires_grad[n]

DisjointUpdateStep ==
    /\ pc = "step_G" => \A n \in D_Nets : param'[n] = param[n]
    /\ pc = "step_D" => \A n \in G_Nets : param'[n] = param[n]
    /\ pc \in {"unfreeze", "zero_grad_D", "backward_D_A", "backward_D_B",
               "step_D"}
           => \A n \in G_Nets : param'[n] = param[n] /\ grad'[n] = grad[n]

\* C5: the generator optimizer step leaves the discriminator parameters
\* alone and the discriminator optimizer step the generator parameters;
\* from the unfreeze to the discriminator optimizer step the values and
\* the accumulated gradients of the generator parameters do not change.
C5_DisjointUpdates == [][DisjointUpdateStep]_vars

C5_Witness ==
    /\ pc = "idle" /\ outcome = "returned"
    /\ \A n \in Nets : param[n] > pre.param[n]
    /\ \A i \in 1..Len(dlog) :
           dlog[i].op = "backward_D_basic" => dlog[i].fake.deps # {}

\* C9: a completed step has queried the fake-B pool once, with the fake_B
\* of this step's forward pass, and scored discriminator A on real_B and
\* the image that query returned; then queried the fake-A pool once, with
\* this step's fake_A, and scored discriminator B on real_A and the image
\* that query returned; nothing else was queried or scored.
C9_PooledFakePairing ==
    (pc = "idle" /\ outcome = "returned") =>
        /\ Len(dlog) = 4
        /\ fake_B.src = <<"fake_B", call>> /\ fake_A.src = <<"fake_A", call>>
        /\ real_B.src = <<"real_B", call>> /\ real_A.src = <<"real_A", call>>
        /\ dlog[1].op = "query" /\ dlog[1].pool = "fake_B_pool"
        /\ dlog[1].image = fake_B
        /\ dlog[2] = BasicEvent("D_A", real_B, dlog[1].returned)
        /\ dlog[3].op = "query" /\ dlog[3].pool = "fake_A_pool"
        /\ dlog[3].image = fake_A
        /\ dlog[4] = BasicEvent("D_B", real_A, dlog[3].returned)

C9_Witness ==
    /\ pc = "idle" /\ outcome = "returned" /\ Len(dlog) = 4
    /\ dlog[1].returned # dlog[1].image
    /\ dlog[3].returned # dlog[3].image

\* C10: when an optimizer is about to be stepped, the gradient of each of
\* its parameters holds exactly the backward passes of the current call
\* that follow its zero_grad: backward_G for the generators, backward_D_A
\* for netD_A and backward_D_B for netD_B.
C10_NoStaleGradient ==
    /\ pc = "step_G" => \A n \in G_Nets : grad[n] = {<<call, "backward_G">>}
    /\ pc = "step_D" => /\ grad["D_A"] = {<<call, "backward_D_A">>}
                        /\ grad["D_B"] = {<<call, "backward_D_B">>}

C10_Witness ==
    /\ pc = "step_D" /\ call = 2 /\ outcome = "raised_backward_D_B"

\* ================================================ claims under SpecLoss
Reported(name) == \E i \in 1..Len(visual_names) : visual_names[i] = name

\* Positions after backward_G has run.
AfterBackwardG ==
    {"step_G", "backward_D_A", "backward_D_B", "step_D", "done"}

\* Positions after backward_G at which no discriminator weight has been
\* stepped since.
BeforeStepD == {"step_G", "backward_D_A", "backward_D_B", "step_D"}

\* C6: with lambda_identity = 0, over any number of steps, the identity
\* images are never computed, their names are not reported and, once
\* backward_G has run, loss_idt_A and loss_idt_B are 0; with lambda_identity > 0 in training both names
\* are reported, backward_G computes idt_A = G_A(real_B) and
\* idt_B = G_B(real_A), and loss_idt_A = L1(idt_A, real_B) * lambda_B *
\* lambda_identity, loss_idt_B = L1(idt_B, real_A) * lambda_A *
\* lambda_identity.
C6_IdentityGating ==
    /\ opt.lambda_identity = 0 =>
        /\ "idt_A" \notin has /\ "idt_B" \notin has
        /\ ~Reported("idt_A") /\ ~Reported("idt_B")
        /\ "loss_idt_A" \in has => self.loss_idt_A = 0
        /\ "loss_idt_B" \in has => self.loss_idt_B = 0
        /\ lpc \in AfterBackwardG => {"loss_idt_A", "loss_idt_B"} \subseteq has
    /\ (opt.lambda_identity > 0 /\ opt.isTrain) =>
        /\ Reported("idt_A") /\ Reported("idt_B")
        /\ lpc = "step_G" =>
               /\ self.idt_A = NetG(weights["G_A"], self.real_B)
               /\ self.idt_B = NetG(weights["G_B"], self.real_A)
        /\ lpc \in AfterBackwardG =>
               /\ {"idt_A", "idt_B", "loss_idt_A", "loss_idt_B"} \subseteq has
               /\ self.loss_idt_A * BatchSize =
                      Unit * Sum([i \in 1..BatchSize |->
                                     Abs(self.idt_A[i] - self.real_B[i])])
                          * opt.lambda_B * opt.lambda_identity
               /\ self.loss_idt_B * BatchSize =
                      Unit * Sum([i \in 1..BatchSize |->
                                     Abs(self.idt_B[i] - self.real_A[i])])
                          * opt.lambda_A * opt.lambda_identity

C6_Witness ==
    /\ lpc = "step_G" /\ opt.lambda_identity > 0
    /\ opt.lambda_A # opt.lambda_B
    /\ self.loss_idt_A # 0 /\ self.loss_idt_B # 0
    /\ self.loss_idt_A # self.loss_idt_B

\* Every sample is given the same score c.
ConstantScore(pred, c) == \A i \in 1..Len(pred) : pred[i] = c

\* C7: with the Wasserstein flag set, whatever the least-squares flag, the
\* loss of backward_D_basic before the penalty is mean(D(fake)) -
\* mean(D(real)), which is 0 for a discriminator scoring every input the
\* same, and each generator adversarial term is -mean(D(fake)); without
\* the flag the discriminator loss is 0.5 * criterion(D(real), real) +
\* 0.5 * criterion(D(fake), fake) and the generator term is
\* criterion(D(fake), real).
C7_AdversarialVariant ==
    /\ (lpc \in {"backward_D_B", "step_D"}) =>
        LET pr == NetD(weights[last_D.netD], last_D.real)
            pf == NetD(weights[last_D.netD], last_D.fake)
        IN  /\ last_D.netD = (IF lpc = "backward_D_B" THEN "D_A" ELSE "D_B")
            /\ opt.wgan =>
                /\ last_D.loss_base * BatchSize = Unit * (Sum(pf) - Sum(pr))
                /\ (ConstantScore(pr, pr[1]) /\ ConstantScore(pf, pr[1]))
                       => last_D.loss_base = 0
            /\ ~opt.wgan =>
                last_D.loss_base =
                    Half(CriterionGAN(pr, TRUE, ~opt.no_lsgan))
                        + Half(CriterionGAN(pf, FALSE, ~opt.no_lsgan))
    /\ (lpc \in BeforeStepD) =>
        LET pA == NetD(weights["D_A"], self.fake_B)
            pB == NetD(weights["D_B"], self.fake_A)
        IN  /\ opt.wgan =>
                /\ self.loss_G_A * BatchSize = -(Unit * Sum(pA))
                /\ self.loss_G_B * BatchSize = -(Unit * Sum(pB))
            /\ ~opt.wgan =>
                /\ self.loss_G_A = CriterionGAN(pA, TRUE, ~opt.no_lsgan)
                /\ self.loss_G_B = CriterionGAN(pB, TRUE, ~opt.no_lsgan)

C7_Witness ==
    /\ lpc = "step_D" /\ opt.wgan /\ ~opt.no_lsgan
    /\ weights["D_B"].w = 0 /\ weights["D_A"].w # 0
    /\ last_D.real # last_D.fake
    /\ last_D.loss_base = 0
    /\ self.loss_G_A < 0

\* C8: with the gradient penalty enabled the loss of backward_D_basic is
\* the base loss plus lambda_gp times the mean squared deviation of the
\* gradient norm from 1, and the base loss alone with it disabled.
C8_PenaltyWeightedByLambdaGp ==
    (lpc \in {"backward_D_B", "step_D", "done"}) =>
        last_D.loss_D = last_D.loss_base
            + (IF opt.with_gp THEN opt.lambda_gp * last_D.penalty ELSE 0)

====
